---- MODULE Spec2Model ----
(***************************************************************************)
(* RAGEngine (src/rag_engine.py): the document loader, the batched index   *)
(* builder with its retry-once policy, and the retriever; and the /chat    *)
(* endpoint of src/app.py, which calls the retriever and the chat model.   *)
(*                                                                         *)
(* The engine is single-threaded.  One call of load_documents is modelled  *)
(* as a sequence of steps, one per blocking call it makes (an embedding    *)
(* call, a time.sleep), so that the order of these calls can be stated.    *)
(* `log` is a history variable: the embedding calls and sleeps of the      *)
(* running (or last) call of load_documents, in order.                     *)
(***************************************************************************)
EXTENDS Integers, Sequences, FiniteSets, TLC

VARIABLES
    vectorstore,   \* self.vectorstore: [isNone, docs], docs the indexed Documents in insertion order
    pc,            \* position of the single thread of control
    listing,       \* what os.listdir returned to the running call of load_documents
    all_documents, \* local `all_documents` of the running call of load_documents
    chunks,        \* local `chunks` of the running call of load_documents
    file_count,    \* local `file_count` of the running call of load_documents
    i,             \* loop variable of the batching loop (offset of the batch in chunks)
    loads,         \* number of calls of load_documents started so far
    log,           \* history: embedding calls and sleeps of the current call of load_documents
    ret,           \* outcome of the last call of search / get_context_for_question / chat_with_ai
    chat_model     \* whether app.py defined the global chat_model (GOOGLE_API_KEY was set)

vars == <<vectorstore, pc, listing, all_documents, chunks, file_count, i, loads, log, ret,
          chat_model>>

(***************************************************************************)
(* Bounds of the model.                                                    *)
(***************************************************************************)
MaxFiles == 2      \* entries in the documents folder
MaxPages == 2      \* Documents one loader call returns
MaxK == 2          \* largest k / max_chunks passed to the retriever
MaxLoads == 2      \* calls of load_documents on one engine

(***************************************************************************)
(* Program constants.                                                      *)
(***************************************************************************)
batch_size == 50
cooldown_secs == 2
backoff_secs == 10
chat_k == 2
HTTP_OK == 200
HTTP_ERROR == 500

documents_folder == "rules_documents"

NoDocumentsLoaded == "No rule documents loaded."
NoRelevantInformation == "No relevant information found."

(***************************************************************************)
(* Sequence helpers.                                                       *)
(***************************************************************************)
Min(a, b) == IF a < b THEN a ELSE b

\* Python slice s[lo : hi] with 0-based offsets, clipped to the sequence
Slice(s, lo, hi) == SubSeq(s, lo + 1, Min(hi, Len(s)))

Range(s) == {s[n] : n \in DOMAIN s}

(***************************************************************************)
(* The documents folder: what os.listdir returns and what each loader      *)
(* does with each file.  A file name is its stem and its extension.        *)
(***************************************************************************)
FileNames ==
    << [stem |-> "a", ext |-> ".pdf"],
       [stem |-> "b", ext |-> ".md"],
       [stem |-> "c", ext |-> ".TXT"],
       [stem |-> "d", ext |-> ".docx"] >>

\* str.lower() on the extensions that occur
Lower(ext) ==
    CASE ext = ".TXT" -> ".txt"
      [] ext = ".PDF" -> ".pdf"
      [] ext = ".DOCX" -> ".docx"
      [] OTHER -> ext

\* keys of the `loaders` dict
loaders == {".pdf", ".txt", ".docx"}

\* os.path.splitext(filename)[1]
SplitExt(filename) == filename.ext

\* os.path.join(folder, filename); a path keeps its directory and its base name
PathJoin(folder, filename) == [dir |-> folder, base |-> filename.stem \o filename.ext]

\* os.path.basename(path)
Basename(path) == path.base

\* Number of chunks the text splitter cuts one Document into
PieceCounts == {1, batch_size}

RECURSIVE SeqsUpTo(_, _)
SeqsUpTo(S, n) ==
    IF n = 0 THEN {<<>>}
    ELSE LET shorter == SeqsUpTo(S, n - 1)
         IN  shorter \cup {Append(s, x) : s \in {t \in shorter : Len(t) = n - 1}, x \in S}

Supported(filename) == Lower(SplitExt(filename)) \in loaders

\* What loader.load() does for one file: raise, or return Documents, each given
\* here by the number of chunks its text will be split into.  PyPDFLoader
\* returns one Document per page; TextLoader and Docx2txtLoader return one.
LoadOutcomes(filename) ==
    {[raises |-> TRUE, pages |-> <<>>]}
        \cup {[raises |-> FALSE, pages |-> p] :
                p \in IF Lower(SplitExt(filename)) = ".pdf"
                      THEN SeqsUpTo(PieceCounts, MaxPages)
                      ELSE {<<n>> : n \in PieceCounts}}

\* A directory entry: the position of its name in FileNames and what its loader would do
DirEntries ==
    UNION { {[at |-> n, name |-> FileNames[n], load |-> o] :
                o \in IF Supported(FileNames[n])
                      THEN LoadOutcomes(FileNames[n])
                      ELSE {[raises |-> TRUE, pages |-> <<>>]}} : n \in DOMAIN FileNames }

\* os.listdir: at most MaxFiles entries, no name twice, listed in the order of their names
Folders ==
    {d \in SeqsUpTo(DirEntries, MaxFiles) :
        \A m, n \in DOMAIN d : m < n => d[m].at < d[n].at}

(***************************************************************************)
(* load_documents, lines 23-38: the loader loop.  A Document is a metadata *)
(* record (source, and page for a PDF page) plus the number of chunks its  *)
(* text will be split into.                                                *)
(***************************************************************************)
\* loaders[file_ext](file_path).load() when it does not raise
LoaderLoad(entry, file_path) ==
    [p \in 1..Len(entry.load.pages) |->
        [metadata |-> IF Lower(SplitExt(entry.name)) = ".pdf"
                      THEN [source |-> file_path, page |-> p - 1]
                      ELSE [source |-> file_path],
         pieces |-> entry.load.pages[p]]]

\* One iteration of the loop over os.listdir: the new (all_documents, file_count)
LoadOne(entry, acc) ==
    LET file_path == PathJoin(documents_folder, entry.name)
        file_ext == Lower(SplitExt(entry.name))
    IN  IF file_ext \in loaders
        THEN IF entry.load.raises
             THEN acc    \* except Exception: printed, nothing else
             ELSE [all_documents |-> acc.all_documents \o LoaderLoad(entry, file_path),
                   file_count |-> acc.file_count + 1]
        ELSE acc

\* mutant of LoadFrom: a file that fails to load ends the loop
RECURSIVE LoadFrom_StopAtError(_, _, _)
LoadFrom_StopAtError(folder, n, acc) ==
    IF n > Len(folder) THEN acc
    ELSE IF Supported(folder[n].name) /\ folder[n].load.raises THEN acc
    ELSE LoadFrom_StopAtError(folder, n + 1, LoadOne(folder[n], acc))

RECURSIVE LoadFrom(_, _, _)
LoadFrom(folder, n, acc) ==
    IF n > Len(folder) THEN acc
    ELSE LoadFrom(folder, n + 1, LoadOne(folder[n], acc))

LoadAll(folder) == LoadFrom(folder, 1, [all_documents |-> <<>>, file_count |-> 0])

(***************************************************************************)
(* The text splitter, lines 45-50: every Document is cut into its pieces,  *)
(* each piece a new Document with the metadata of the one it comes from.   *)
(* `doc` and `piece` say where the chunk comes from and `gen` which call   *)
(* of load_documents made it; together they are the chunk's identity.      *)
(***************************************************************************)
Texts == <<"alpha", "beta", "gamma">>

PieceText(d, j) == Texts[((d + j) % Len(Texts)) + 1]

RECURSIVE SplitFrom(_, _, _, _)
SplitFrom(documents, d, gen, acc) ==
    IF d > Len(documents) THEN acc
    ELSE SplitFrom(documents, d + 1, gen,
            acc \o [j \in 1..documents[d].pieces |->
                        [page_content |-> PieceText(d, j),
                         metadata |-> documents[d].metadata,
                         gen |-> gen, doc |-> d, piece |-> j]])

split_documents(documents, gen) == SplitFrom(documents, 1, gen, <<>>)

(***************************************************************************)
(* The vector store.                                                       *)
(***************************************************************************)
NoneStore == [isNone |-> TRUE, docs |-> <<>>]

\* FAISS.from_documents(batch, self.embeddings) when the embedding call succeeds
from_documents(batch) == [isNone |-> FALSE, docs |-> batch]

\* self.vectorstore.add_documents(batch) when the embedding call succeeds
add_documents(store, batch) == [isNone |-> FALSE, docs |-> store.docs \o batch]

\* mutant of IndexBatch: every batch constructs a new store
IndexBatch_Rebuild(store, batch) == from_documents(batch)

\* lines 61-64 and 77-80: construct the store from the batch, or extend it
IndexBatch(store, batch) ==
    IF store.isNone THEN from_documents(batch) ELSE add_documents(store, batch)

\* the name of the call lines 61-64 / 77-80 make on the store
IndexCall(store) == IF store.isNone THEN "from_documents" ELSE "add_documents"

\* mutant of Batch: the slice stops one chunk early
Batch_Short(cs, off) == Slice(cs, off, off + batch_size - 1)

\* line 59: batch = chunks[i : i + batch_size]
Batch(cs, off) == Slice(cs, off, off + batch_size)

\* 1-based number of the batch at offset off
BatchNo(off) == (off \div batch_size) + 1

\* range(0, len(chunks), batch_size): is there an iteration after offset off
HasNext(cs, off) == off + batch_size < Len(cs)

Event(ev, b, secs, ok) == [ev |-> ev, batch |-> b, secs |-> secs, ok |-> ok]

NoRet ==
    [op |-> "none", query |-> "", k |-> 0, raised |-> FALSE, list |-> <<>>, str |-> "",
     embed_calls |-> 0, repeat |-> FALSE,
     method |-> "", exc |-> "none", status |-> 0, reply |-> "", rag_used |-> FALSE,
     gen_calls |-> 0]

\* an outcome with the fields that do not apply left at their NoRet value
Ret(r) == [f \in DOMAIN NoRet |-> IF f \in DOMAIN r THEN r[f] ELSE NoRet[f]]

(***************************************************************************)
(* Initial state: __init__ has run lines 11-16 and is about to call        *)
(* load_documents.                                                         *)
(***************************************************************************)
EngineInit ==
    /\ vectorstore = NoneStore
    /\ pc = "init"
    /\ listing = <<>>
    /\ all_documents = <<>>
    /\ chunks = <<>>
    /\ file_count = 0
    /\ i = 0
    /\ loads = 0
    /\ log = <<>>
    /\ ret = NoRet

\* the engine on its own: app.py is not loaded and no chat_model exists
Init == EngineInit /\ chat_model = FALSE

\* the service: app.py has run lines 20-27, where chat_model is defined only
\* if GOOGLE_API_KEY is set, and constructs the engine at line 31
AppInit == EngineInit /\ chat_model \in BOOLEAN

(***************************************************************************)
(* load_documents up to the batching loop, lines 21-58.                    *)
(***************************************************************************)
\* mutant of LoadDocuments: an empty chunk sequence still constructs a store
LoadDocuments_IndexEmpty(folder) ==
    LET loaded == LoadAll(folder)
        cs == split_documents(loaded.all_documents, loads + 1)
    IN  /\ loads' = loads + 1
        /\ listing' = folder
        /\ all_documents' = loaded.all_documents
        /\ log' = <<>>
        /\ file_count' = loaded.file_count
        /\ ret' = NoRet
        /\ UNCHANGED chat_model
        /\ chunks' = cs
        /\ vectorstore' = IF Len(cs) > 0 THEN NoneStore ELSE from_documents(cs)
        /\ i' = 0
        /\ pc' = IF Len(cs) > 0 THEN "try" ELSE "done"

LoadDocuments(folder) ==
    LET loaded == LoadAll(folder)
        cs == split_documents(loaded.all_documents, loads + 1)
    IN  /\ loads' = loads + 1
        /\ listing' = folder
        /\ all_documents' = loaded.all_documents
        /\ log' = <<>>
        /\ file_count' = loaded.file_count
        /\ ret' = NoRet
        /\ UNCHANGED chat_model
        /\ IF loaded.file_count = 0
           THEN \* lines 40-42: return before anything else is touched
                /\ pc' = "done"
                /\ UNCHANGED <<vectorstore, chunks, i>>
           ELSE /\ chunks' = cs
                /\ vectorstore' = NoneStore          \* line 56
                /\ i' = 0
                /\ pc' = IF Len(cs) > 0 THEN "try" ELSE "done"

\* __init__, line 19
Construct ==
    /\ pc = "init"
    /\ \E folder \in Folders : LoadDocuments(folder)

(***************************************************************************)
(* The batching loop, lines 58-80.                                         *)
(***************************************************************************)
\* mutant of NextIteration: the loop steps over a batch
NextIteration_Skip ==
    /\ i' = i + 2 * batch_size
    /\ pc' = IF HasNext(chunks, i + batch_size) THEN "try" ELSE "done"

\* the loop moves on from the batch at offset i
NextIteration ==
    /\ i' = i + batch_size
    /\ pc' = IF HasNext(chunks, i) THEN "try" ELSE "done"

\* mutant of TryBatch: a failing embedding call has already added the batch
TryBatch_PartialAdd ==
    /\ pc = "try"
    /\ \E ok \in BOOLEAN :
        /\ log' = Append(log, Event(IndexCall(vectorstore), BatchNo(i), 0, ok))
        /\ vectorstore' = IndexBatch(vectorstore, Batch(chunks, i))
        /\ IF ok
           THEN IF HasNext(chunks, i)
                THEN pc' = "cooldown" /\ UNCHANGED i
                ELSE NextIteration
           ELSE pc' = "except" /\ UNCHANGED i
    /\ UNCHANGED <<listing, all_documents, chunks, file_count, loads, ret, chat_model>>

\* lines 59-66: first attempt of the batch at offset i.  The store embeds the
\* whole batch before it stores any of it, so a call that raises adds nothing.
TryBatch ==
    /\ pc = "try"
    /\ \E ok \in BOOLEAN :
        /\ log' = Append(log, Event(IndexCall(vectorstore), BatchNo(i), 0, ok))
        /\ IF ok
           THEN /\ vectorstore' = IndexBatch(vectorstore, Batch(chunks, i))
                /\ IF HasNext(chunks, i)             \* line 69
                   THEN pc' = "cooldown" /\ UNCHANGED i
                   ELSE NextIteration
           ELSE /\ pc' = "except"
                /\ UNCHANGED <<vectorstore, i>>
    /\ UNCHANGED <<listing, all_documents, chunks, file_count, loads, ret, chat_model>>

\* line 70: time.sleep(2)
CoolDown ==
    /\ pc = "cooldown"
    /\ log' = Append(log, Event("sleep", BatchNo(i), cooldown_secs, TRUE))
    /\ NextIteration
    /\ UNCHANGED <<vectorstore, listing, all_documents, chunks, file_count, loads, ret, chat_model>>

\* lines 72-75: the handler waits before the retry
BackOff ==
    /\ pc = "except"
    /\ log' = Append(log, Event("sleep", BatchNo(i), backoff_secs, TRUE))
    /\ pc' = "retry"
    /\ UNCHANGED <<vectorstore, listing, all_documents, chunks, file_count, i, loads, ret, chat_model>>

\* mutant of RetryBatch: a failed retry is retried again
RetryBatch_Again ==
    /\ pc = "retry"
    /\ \E ok \in BOOLEAN :
        /\ log' = Append(log, Event(IndexCall(vectorstore), BatchNo(i), 0, ok))
        /\ IF ok
           THEN /\ vectorstore' = IndexBatch(vectorstore, Batch(chunks, i))
                /\ NextIteration
           ELSE /\ pc' = "except"
                /\ UNCHANGED <<vectorstore, i>>
    /\ UNCHANGED <<listing, all_documents, chunks, file_count, loads, ret, chat_model>>

\* mutant of RetryBatch: a failed retry throws the index away
RetryBatch_Discard ==
    /\ pc = "retry"
    /\ \E ok \in BOOLEAN :
        /\ log' = Append(log, Event(IndexCall(vectorstore), BatchNo(i), 0, ok))
        /\ IF ok
           THEN /\ vectorstore' = IndexBatch(vectorstore, Batch(chunks, i))
                /\ NextIteration
           ELSE /\ pc' = "raised"
                /\ vectorstore' = NoneStore
                /\ UNCHANGED i
    /\ UNCHANGED <<listing, all_documents, chunks, file_count, loads, ret, chat_model>>

\* mutant of RetryBatch: a failed retry is swallowed and the loop goes on
RetryBatch_Swallow ==
    /\ pc = "retry"
    /\ \E ok \in BOOLEAN :
        /\ log' = Append(log, Event(IndexCall(vectorstore), BatchNo(i), 0, ok))
        /\ IF ok
           THEN /\ vectorstore' = IndexBatch(vectorstore, Batch(chunks, i))
                /\ NextIteration
           ELSE /\ UNCHANGED vectorstore
                /\ NextIteration
    /\ UNCHANGED <<listing, all_documents, chunks, file_count, loads, ret, chat_model>>

\* lines 77-80: the retry, outside any try
RetryBatch ==
    /\ pc = "retry"
    /\ \E ok \in BOOLEAN :
        /\ log' = Append(log, Event(IndexCall(vectorstore), BatchNo(i), 0, ok))
        /\ IF ok
           THEN /\ vectorstore' = IndexBatch(vectorstore, Batch(chunks, i))
                /\ NextIteration
           ELSE /\ pc' = "raised"                    \* the exception leaves load_documents
                /\ UNCHANGED <<vectorstore, i>>
    /\ UNCHANGED <<listing, all_documents, chunks, file_count, loads, ret, chat_model>>

\* load_documents returns (line 42 or line 82) and so does __init__: the locals
\* of the call are gone, and the history of the call with them
Finish ==
    /\ pc = "done"
    /\ pc' = "idle"
    /\ listing' = <<>>
    /\ all_documents' = <<>>
    /\ chunks' = <<>>
    /\ file_count' = 0
    /\ i' = 0
    /\ log' = <<>>
    /\ UNCHANGED <<vectorstore, loads, ret, chat_model>>

(***************************************************************************)
(* The embedding provider and the similarity search of the vector store.   *)
(* An embedding is one number and the score is the squared distance.       *)
(***************************************************************************)
Queries == {"alpha", "delta"}

Embedding(text) ==
    CASE text = "alpha" -> 0
      [] text = "beta" -> 1
      [] text = "gamma" -> 3
      [] OTHER -> 2

Score(query, doc) ==
    (Embedding(query) - Embedding(doc.page_content)) * (Embedding(query) - Embedding(doc.page_content))

\* mutant of NearestFrom: the farthest Document is taken first
NearestFrom_Farthest(docs, query, taken) ==
    LET key(n) == Score(query, docs[n]) * (Len(docs) + 1) + n
        keys == {key(n) : n \in DOMAIN docs \ taken}
    IN  (CHOOSE x \in keys : \A y \in keys : x >= y) % (Len(docs) + 1)

\* the position, not in `taken`, of the nearest Document, the earliest one among equals
NearestFrom(docs, query, taken) ==
    LET key(n) == Score(query, docs[n]) * (Len(docs) + 1) + n
        keys == {key(n) : n \in DOMAIN docs \ taken}
    IN  (CHOOSE x \in keys : \A y \in keys : x <= y) % (Len(docs) + 1)

\* positions of the k nearest Documents, nearest first
RECURSIVE Nearest(_, _, _, _)
Nearest(docs, query, k, found) ==
    IF Len(found) >= k \/ Len(found) >= Len(docs) THEN found
    ELSE Nearest(docs, query, k, Append(found, NearestFrom(docs, query, Range(found))))

\* self.vectorstore.similarity_search_with_score(query, k=k) for k >= 1, the query embedded
similarity_search_with_score(store, query, k) ==
    LET at == Nearest(store.docs, query, k, <<>>)
    IN  [n \in 1..Len(at) |-> [doc |-> store.docs[at[n]], score |-> Score(query, store.docs[at[n]])]]

\* doc.metadata.get('source', 'Unknown')
MetadataSource(metadata) ==
    IF "source" \in DOMAIN metadata THEN metadata.source ELSE [dir |-> "", base |-> "Unknown"]

\* doc.metadata.get('page', 'N/A'); a page number is kept as its decimal string
MetadataPage(metadata) ==
    IF "page" \in DOMAIN metadata THEN ToString(metadata.page) ELSE "N/A"

\* lines 87-88: the dict built for one (doc, score)
ResultDict(r) ==
    [content |-> r.doc.page_content,
     source |-> MetadataSource(r.doc.metadata),
     page |-> MetadataPage(r.doc.metadata),
     score |-> r.score]

Returned(list, calls) == [raised |-> FALSE, list |-> list, embed_calls |-> calls]
Raised(calls) == [raised |-> TRUE, list |-> <<>>, embed_calls |-> calls]

\* mutant of NotStore: the guard never fires
NotStore_Never(store) == FALSE

\* `not self.vectorstore`
NotStore(store) == store.isNone

\* the elements of s in the opposite order
Reverse(s) == [n \in DOMAIN s |-> s[Len(s) + 1 - n]]

\* mutant of search: the order of the results is not settled
search_Unstable(store, query, k) ==
    IF NotStore(store) THEN {Returned(<<>>, 0)}
    ELSE {Raised(1)}
            \cup (IF k = 0 THEN {Raised(1), Returned(<<>>, 1)}
                  ELSE LET results == similarity_search_with_score(store, query, k)
                           dicts == [n \in 1..Len(results) |-> ResultDict(results[n])]
                       IN  {Returned(dicts, 1), Returned(Reverse(dicts), 1)})

\* search, lines 84-88: the outcomes of one call.  The embedding of the query may
\* fail; with k = 0 the index either refuses the search or finds nothing,
\* depending on the faiss build.
search(store, query, k) ==
    IF NotStore(store) THEN {Returned(<<>>, 0)}
    ELSE {Raised(1)}
            \cup (IF k = 0 THEN {Raised(1), Returned(<<>>, 1)}
                  ELSE LET results == similarity_search_with_score(store, query, k)
                       IN  {Returned([n \in 1..Len(results) |-> ResultDict(results[n])], 1)})

\* line 94: the text of result number n
SourceBlock(n, r) ==
    "[Source " \o ToString(n) \o ": " \o Basename(r.source) \o ", Page " \o r.page
        \o "]\n" \o r.content \o "\n"

\* "\n".join(blocks)
RECURSIVE JoinLines(_)
JoinLines(blocks) ==
    IF Len(blocks) = 0 THEN ""
    ELSE IF Len(blocks) = 1 THEN blocks[1]
    ELSE blocks[1] \o "\n" \o JoinLines(Tail(blocks))

\* mutant of FormatContext: no sentinel for an empty result list
FormatContext_NoSentinel(results) ==
    JoinLines([n \in 1..Len(results) |-> SourceBlock(n, results[n])])

\* lines 93-95: what get_context_for_question makes of the search results
FormatContext(results) ==
    IF Len(results) = 0 THEN NoRelevantInformation
    ELSE JoinLines([n \in 1..Len(results) |-> SourceBlock(n, results[n])])

\* mutant of get_context_for_question: line 91 is missing
get_context_for_question_NoGuard(store, question, max_chunks) ==
    {[raised |-> o.raised,
      str |-> IF o.raised THEN "" ELSE FormatContext(o.list),
      results |-> o.list,
      embed_calls |-> o.embed_calls] : o \in search(store, question, max_chunks)}

\* get_context_for_question, lines 90-95: the outcomes of one call
get_context_for_question(store, question, max_chunks) ==
    IF NotStore(store)
    THEN {[raised |-> FALSE, str |-> NoDocumentsLoaded, results |-> <<>>, embed_calls |-> 0]}
    ELSE {[raised |-> o.raised,
           str |-> IF o.raised THEN "" ELSE FormatContext(o.list),
           results |-> o.list,
           embed_calls |-> o.embed_calls] : o \in search(store, question, max_chunks)}

(***************************************************************************)
(* Calls of the retriever on the constructed engine.  `ret` keeps what the *)
(* last call was given and what it did; `repeat` says that the call before *)
(* it was the same call and returned.                                      *)
(***************************************************************************)
Repeats(op, query, k, raised) ==
    ret.op = op /\ ret.query = query /\ ret.k = k /\ ~ret.raised /\ ~raised

Search(query, k) ==
    /\ pc = "idle"
    /\ \E o \in search(vectorstore, query, k) :
        ret' = Ret([op |-> "search", query |-> query, k |-> k, raised |-> o.raised,
                    list |-> o.list, str |-> "", embed_calls |-> o.embed_calls,
                    repeat |-> Repeats("search", query, k, o.raised)])
    /\ UNCHANGED <<vectorstore, pc, listing, all_documents, chunks, file_count, i, loads, log, chat_model>>

GetContext(question, max_chunks) ==
    /\ pc = "idle"
    /\ \E o \in get_context_for_question(vectorstore, question, max_chunks) :
        ret' = Ret([op |-> "get_context_for_question", query |-> question, k |-> max_chunks,
                    raised |-> o.raised, list |-> o.results, str |-> o.str,
                    embed_calls |-> o.embed_calls,
                    repeat |-> Repeats("get_context_for_question", question, max_chunks,
                                       o.raised)])
    /\ UNCHANGED <<vectorstore, pc, listing, all_documents, chunks, file_count, i, loads, log, chat_model>>

(***************************************************************************)
(* The /chat endpoint, src/app.py lines 43-118.  `exc` names the statement *)
(* of the try block that raised ("none" if none did).                      *)
(***************************************************************************)
\* the reply of line 118, without the warning sign that leads it
Unavailable == "Investigation AI temporarily unavailable. Please try again."

\* response.text of a generation call that succeeds
GeneratedText == "response.text"

Methods == {"POST", "OPTIONS"}

\* request bodies: not JSON, JSON that is no object, an object whose
\* detections cannot be read, a well-formed body
Bodies == {"malformed", "not_object", "bad_detections", "ok"}

\* lines 50-67: the statement that raises while the body is read
ReadRequest(body) ==
    IF body = "malformed" THEN "get_json"
    ELSE IF body = "not_object" THEN "data.get"
    ELSE IF body = "bad_detections" THEN "detections"
    ELSE "none"

\* lines 74-75: the RAG search is made only if the engine has an index
RagSearch(store, question) ==
    IF NotStore(store)
    THEN {[raised |-> FALSE, list |-> <<>>, embed_calls |-> 0]}
    ELSE search(store, question, chat_k)

\* lines 76-83: "\n\n".join of the contents of the results
RECURSIVE ContextFrom(_, _)
ContextFrom(results, n) ==
    IF n > Len(results) THEN ""
    ELSE results[n].content \o (IF n < Len(results) THEN "\n\n" ELSE "")
         \o ContextFrom(results, n + 1)

rag_context(results) == ContextFrom(results, 1)

\* the try block left by an exception raised at statement exc
Failure(exc, results, embed_calls, gen_calls) ==
    [exc |-> exc, raised |-> TRUE, status |-> 0, reply |-> "", rag_used |-> FALSE,
     list |-> results, embed_calls |-> embed_calls, gen_calls |-> gen_calls]

\* lines 49-114: the outcomes of the try block; gen_ok tells whether the
\* generation service answers
TryBlock(body, question, store, model, gen_ok) ==
    IF ReadRequest(body) # "none"
    THEN {Failure(ReadRequest(body), <<>>, 0, 0)}
    ELSE {IF o.raised THEN Failure("search", <<>>, o.embed_calls, 0)
          ELSE IF ~model THEN Failure("chat_model", o.list, o.embed_calls, 0)   \* NameError
          ELSE IF ~gen_ok THEN Failure("generate_content", o.list, o.embed_calls, 1)
          ELSE [exc |-> "none", raised |-> FALSE, status |-> HTTP_OK,
                reply |-> GeneratedText, rag_used |-> rag_context(o.list) # "",
                list |-> o.list, embed_calls |-> o.embed_calls, gen_calls |-> 1] :
          o \in RagSearch(store, question)}

\* mutant of ExceptClause: the exception is raised again
ExceptClause_Reraise(t) == t

\* lines 116-118: except Exception
ExceptClause(t) ==
    [t EXCEPT !.raised = FALSE, !.status = HTTP_ERROR, !.reply = Unavailable]

chat_with_ai(method, body, question, store, model, gen_ok) ==
    IF method = "OPTIONS"
    THEN {[exc |-> "none", raised |-> FALSE, status |-> HTTP_OK, reply |-> "",
           rag_used |-> FALSE, list |-> <<>>, embed_calls |-> 0, gen_calls |-> 0]}
    ELSE {IF t.raised THEN ExceptClause(t) ELSE t :
          t \in TryBlock(body, question, store, model, gen_ok)}

Chat(method, body, question, gen_ok) ==
    /\ pc = "idle"
    /\ \E o \in chat_with_ai(method, body, question, vectorstore, chat_model, gen_ok) :
        ret' = Ret([op |-> "chat_with_ai", method |-> method, query |-> question,
                    k |-> chat_k, exc |-> o.exc, raised |-> o.raised, status |-> o.status,
                    reply |-> o.reply, rag_used |-> o.rag_used, list |-> o.list,
                    embed_calls |-> o.embed_calls, gen_calls |-> o.gen_calls])
    /\ UNCHANGED <<vectorstore, pc, listing, all_documents, chunks, file_count, i, loads, log,
                   chat_model>>

Next ==
    \/ Construct
    \/ TryBatch
    \/ CoolDown
    \/ BackOff
    \/ RetryBatch
    \/ Finish
    \/ \E query \in Queries, k \in 0..MaxK : Search(query, k)
    \/ \E question \in Queries, max_chunks \in 0..MaxK : GetContext(question, max_chunks)

Spec == Init /\ [][Next]_vars

\* the service of src/app.py: the engine is constructed at import, then
\* requests to /chat are handled
AppNext ==
    \/ Construct
    \/ TryBatch
    \/ CoolDown
    \/ BackOff
    \/ RetryBatch
    \/ Finish
    \/ \E method \in Methods, body \in Bodies, question \in Queries, gen_ok \in BOOLEAN :
            Chat(method, body, question, gen_ok)

AppSpec == AppInit /\ [][AppNext]_vars

\* load_documents is called again on the constructed engine; the folder may
\* have changed in between
Reload ==
    /\ pc = "idle"
    /\ loads < MaxLoads
    /\ \E folder \in Folders : LoadDocuments(folder)

ReloadNext ==
    \/ Construct
    \/ Reload
    \/ TryBatch
    \/ CoolDown
    \/ BackOff
    \/ RetryBatch
    \/ Finish

ReloadSpec == Init /\ [][ReloadNext]_vars

\* A blocking call of the build (an embedding call, a sleep) returns or raises
Build == TryBatch \/ CoolDown \/ BackOff \/ RetryBatch

LiveSpec == Spec /\ WF_vars(Build)

(***************************************************************************)
(* Vocabulary of the properties.                                           *)
(***************************************************************************)
\* self.vectorstore is None
NoIndex == vectorstore.isNone

\* the batching loop is running
Building == pc \in {"try", "cooldown", "except", "retry"}

\* the locals of load_documents (chunks, i) and the history of the call exist
InCall == Building \/ pc \in {"done", "raised"}

\* number of batches range(0, len(chunks), batch_size) yields
NumBatches == (Len(chunks) + batch_size - 1) \div batch_size

IsSubmit(e) == e.ev \in {"from_documents", "add_documents"}

IsSleep(e, secs) == e.ev = "sleep" /\ e.secs = secs

\* positions in the log of the embedding calls for batch b
SubmitsOf(b) == {n \in DOMAIN log : IsSubmit(log[n]) /\ log[n].batch = b}

\* batch b was embedded and added to the index
Succeeded(b) == \E n \in SubmitsOf(b) : log[n].ok

\* batch b failed once and then succeeded
RetriedOk(b) == \E m, n \in SubmitsOf(b) : m < n /\ ~log[m].ok /\ log[n].ok

\* the chunks of the first j batches, in input order
FirstBatches(j) == Slice(chunks, 0, j * batch_size)

NoDuplicates(seq) == Cardinality(Range(seq)) = Len(seq)

(***************************************************************************)
(* C1.  Index build is chunk-count-preserving: whenever load_documents     *)
(* runs the builder and completes (no batch failed on both attempts), the  *)
(* index holds exactly one embedded chunk per input chunk, so the two      *)
(* counts are equal.                                                       *)
(***************************************************************************)
C1_ChunkCountPreserving ==
    (pc = "done" /\ file_count > 0) =>
        /\ Len(vectorstore.docs) = Len(chunks)
        /\ Range(vectorstore.docs) = Range(chunks)
        /\ NoDuplicates(chunks)

\* the scenario: three batches, batch 2 failed once and succeeded on the retry
C1_Witness ==
    /\ pc = "done"
    /\ NumBatches = 3
    /\ RetriedOk(2)
    /\ Len(vectorstore.docs) = Len(chunks)
    /\ Len(chunks) > 2 * batch_size

(***************************************************************************)
(* C2.  Bounded retry: every batch is submitted to the embedding provider  *)
(* at most twice; a second submission of a batch comes right after the     *)
(* back-off wait, which comes right after the failed first submission; and *)
(* a failed first submission is followed by the back-off wait and then the *)
(* retry of the same batch.                                                *)
(***************************************************************************)
C2_RetryOnceAfterBackOff ==
    /\ \A b \in 1..NumBatches : Cardinality(SubmitsOf(b)) <= 2
    /\ \A n \in DOMAIN log :
        IsSubmit(log[n]) =>
            \* a retry is preceded by the back-off, and that by the failure
            /\ (\E m \in SubmitsOf(log[n].batch) : m < n) =>
                    /\ n >= 3
                    /\ IsSleep(log[n - 1], backoff_secs)
                    /\ IsSubmit(log[n - 2]) /\ ~log[n - 2].ok
                    /\ log[n - 2].batch = log[n].batch
            \* a failed first attempt is followed by the back-off and the retry
            /\ (~log[n].ok /\ ~(\E m \in SubmitsOf(log[n].batch) : m < n)) =>
                    /\ n + 1 <= Len(log) => IsSleep(log[n + 1], backoff_secs)
                    /\ n + 2 <= Len(log) =>
                            IsSubmit(log[n + 2]) /\ log[n + 2].batch = log[n].batch
                    /\ n = Len(log) => pc = "except"
                    /\ n + 1 = Len(log) => pc = "retry"

C2_Witness ==
    \E b \in 1..NumBatches :
        /\ Cardinality(SubmitsOf(b)) = 2
        /\ b >= 2
        /\ \E n \in SubmitsOf(b) : n >= 3 /\ IsSleep(log[n - 1], backoff_secs)

(***************************************************************************)
(* C3.  Partial progress before a hard failure is retained: when batch N   *)
(* has failed on its first attempt and on its retry and the failure leaves *)
(* load_documents, the index holds exactly the chunks of batches 1..N-1,   *)
(* and for N = 1 the index is unset.                                       *)
(***************************************************************************)
C3_PartialProgressRetained ==
    pc = "raised" =>
        LET N == BatchNo(i)
        IN  /\ vectorstore.docs = FirstBatches(N - 1)
            /\ Len(vectorstore.docs) = (N - 1) * batch_size
            /\ (N = 1 <=> NoIndex)
            /\ Cardinality(SubmitsOf(N)) = 2
            /\ \A n \in SubmitsOf(N) : ~log[n].ok

C3_Witness ==
    /\ pc = "raised"
    /\ BatchNo(i) = 3
    /\ Len(vectorstore.docs) = 2 * batch_size
    /\ vectorstore.docs = FirstBatches(2)

(***************************************************************************)
(* C4.  The build terminates: a running build reaches its end or its first *)
(* second failure.  At the end every batch has been embedded; at a second  *)
(* failure of batch N the exception leaves load_documents, N is the only   *)
(* batch that failed twice, and no batch after N was ever submitted.       *)
(***************************************************************************)
C4_Outcome ==
    /\ (pc = "done" /\ file_count > 0) => \A b \in 1..NumBatches : Succeeded(b)
    /\ pc = "raised" =>
        /\ ~Succeeded(BatchNo(i))
        /\ Cardinality(SubmitsOf(BatchNo(i))) = 2
        /\ \A b \in 1..(BatchNo(i) - 1) : Succeeded(b)
    /\ InCall => \A n \in DOMAIN log : log[n].batch <= BatchNo(i)
    /\ InCall => Len(log) <= 4 * NumBatches

C4_TerminatesAtEndOrSecondFailure ==
    /\ []C4_Outcome
    /\ [][pc = "raised" => pc' = "raised" /\ log' = log]_vars
    /\ (Building ~> (pc \in {"done", "raised"}))

\* a second failure before the last batch: the later batches are never submitted
C4_Witness ==
    /\ pc = "raised"
    /\ BatchNo(i) = 2
    /\ NumBatches = 3
    /\ SubmitsOf(3) = {}

(***************************************************************************)
(* C5.  No chunk is embedded twice: in every state the entries of the      *)
(* index are pairwise different chunks, and during a build they are chunks *)
(* of the input sequence, so no input chunk has more than one entry.       *)
(***************************************************************************)
C5_NoChunkEmbeddedTwice ==
    /\ NoDuplicates(vectorstore.docs)
    /\ InCall /\ file_count > 0 => Range(vectorstore.docs) \subseteq Range(chunks)

\* a batch whose first attempt failed has been added by its retry
C5_Witness ==
    /\ InCall
    /\ RetriedOk(2)
    /\ Len(vectorstore.docs) >= 2 * batch_size

(***************************************************************************)
(* C6.  (The claim as stated.)  After every batch but the last the builder *)
(* sleeps the cool-down interval before the next batch is submitted,       *)
(* whether the batch succeeded at once or on its retry, and there is no    *)
(* cool-down after the last batch.                                         *)
(***************************************************************************)
C6_CoolDownAfterEveryBatch ==
    /\ \A n \in DOMAIN log :
        \* the first submission of a batch other than the first follows a cool-down
        (IsSubmit(log[n]) /\ log[n].batch > 1 /\ n = CHOOSE m \in SubmitsOf(log[n].batch) :
                \A k \in SubmitsOf(log[n].batch) : m <= k)
            => IsSleep(log[n - 1], cooldown_secs)
    /\ \A n \in DOMAIN log :
        IsSleep(log[n], cooldown_secs) => log[n].batch < NumBatches

\* What the code does do: a batch that succeeds at its first attempt and is not
\* the last is followed by the cool-down, and the cool-down by the next batch.
C6_CoolDownAfterFirstAttemptSuccess ==
    \A n \in DOMAIN log :
        /\ (IsSubmit(log[n]) /\ log[n].ok /\ log[n].batch < NumBatches
                /\ SubmitsOf(log[n].batch) = {n} /\ n < Len(log))
              => IsSleep(log[n + 1], cooldown_secs)
        /\ IsSleep(log[n], cooldown_secs) =>
                /\ log[n].batch < NumBatches
                /\ n > 1 /\ IsSubmit(log[n - 1]) /\ log[n - 1].ok
                /\ n < Len(log) => IsSubmit(log[n + 1]) /\ log[n + 1].batch = log[n].batch + 1

(***************************************************************************)
(* C7.  Batches are processed one after the other in input order: a batch  *)
(* is submitted only when every earlier batch is in the index, the call    *)
(* that succeeds first constructs the index and every later one extends    *)
(* it, and the index is the concatenation of the batches embedded so far.  *)
(***************************************************************************)
C7_SequentialInOrder ==
    InCall =>
        /\ \A n \in DOMAIN log :
            IsSubmit(log[n]) =>
                /\ \A b \in 1..(log[n].batch - 1) : \E m \in SubmitsOf(b) : m < n /\ log[m].ok
                /\ \A m \in 1..(n - 1) : IsSubmit(log[m]) => log[m].batch <= log[n].batch
                /\ (log[n].ev = "from_documents")
                        <=> ~(\E m \in 1..(n - 1) : IsSubmit(log[m]) /\ log[m].ok)
                /\ (log[n].ev = "from_documents") <=> (log[n].batch = 1)
        /\ \A b \in 1..NumBatches : Cardinality({n \in SubmitsOf(b) : log[n].ok}) <= 1
        /\ NoIndex <=> ~(\E b \in 1..NumBatches : Succeeded(b))
        /\ file_count > 0 =>
                vectorstore.docs = FirstBatches(Cardinality({b \in 1..NumBatches : Succeeded(b)}))

C7_Witness ==
    /\ InCall
    /\ Succeeded(1) /\ Succeeded(2) /\ Succeeded(3)
    /\ RetriedOk(2)
    /\ \E n \in SubmitsOf(3) : log[n].ev = "add_documents"

(***************************************************************************)
(* C8.  search on an engine without an index returns the empty list for    *)
(* every query and k, raises nothing, makes no call of the embedding       *)
(* provider and leaves the engine as it is.                                *)
(***************************************************************************)
C8_SearchWithoutIndex ==
    [][(pc = "idle" /\ NoIndex /\ ret'.op = "search")
            => /\ ~ret'.raised
               /\ ret'.list = <<>>
               /\ ret'.embed_calls = 0
               /\ vectorstore' = vectorstore
               /\ pc' = "idle"]_vars

C8_Witness ==
    /\ ret.op = "search"
    /\ NoIndex
    /\ ret.k = MaxK
    /\ ret.list = <<>>
    /\ ~ret.raised

(***************************************************************************)
(* C9.  (The claim as stated.)  With no index built, search returns [] and *)
(* get_context_for_question returns the "no information found" sentinel.   *)
(***************************************************************************)
C9_NoIndexGivesNoInformationFound ==
    (pc = "idle" /\ NoIndex) =>
        /\ ret.op = "search" => (~ret.raised /\ ret.list = <<>>)
        /\ ret.op = "get_context_for_question" =>
                (~ret.raised /\ ret.str = NoRelevantInformation)

(***************************************************************************)
(* C9, amended.  With no index built, search returns [] and                *)
(* get_context_for_question returns the "No rule documents loaded."        *)
(* sentinel.                                                               *)
(***************************************************************************)
C9_NoIndexGivesNoDocumentsLoaded ==
    (pc = "idle" /\ NoIndex) =>
        /\ ret.op = "search" => (~ret.raised /\ ret.list = <<>>)
        /\ ret.op = "get_context_for_question" =>
                (~ret.raised /\ ret.str = NoDocumentsLoaded /\ ret.embed_calls = 0)

C9_Witness ==
    /\ pc = "idle"
    /\ NoIndex
    /\ ret.op = "get_context_for_question"
    /\ ret.str = NoDocumentsLoaded

(***************************************************************************)
(* C10.  get_context_for_question never returns the empty string, and its  *)
(* result tells the three cases apart: it is the "No rule documents        *)
(* loaded." sentinel exactly when there is no index, the "No relevant      *)
(* information found." sentinel exactly when there is an index and the     *)
(* search found nothing, and otherwise a context that is neither.          *)
(***************************************************************************)
C10_ContextDistinguishesCases ==
    (ret.op = "get_context_for_question" /\ ~ret.raised) =>
        /\ ret.str # ""
        /\ (ret.str = NoDocumentsLoaded) <=> NoIndex
        /\ (ret.str = NoRelevantInformation) <=> (~NoIndex /\ ret.list = <<>>)
        /\ Len(ret.list) > 0 => ret.str \notin {NoDocumentsLoaded, NoRelevantInformation}

\* searched, found nothing
C10_Witness ==
    /\ ret.op = "get_context_for_question"
    /\ ~ret.raised
    /\ ~NoIndex
    /\ ret.list = <<>>
    /\ ret.str = NoRelevantInformation

(***************************************************************************)
(* C11.  search(query, k) returns at most k results in non-decreasing      *)
(* order of distance, each the content, source path, page and score of a   *)
(* chunk of the index; get_context_for_question(question, max_chunks)      *)
(* has one block for each of at most max_chunks of them.                   *)
(***************************************************************************)
\* result r is what search reports for the indexed Document d and this query
IsResultOf(r, d, query) ==
    /\ r.content = d.page_content
    /\ r.source = d.metadata.source
    /\ r.page = IF "page" \in DOMAIN d.metadata THEN ToString(d.metadata.page) ELSE "N/A"
    /\ r.score = Score(query, d)

C11_AtMostKNearestFirst ==
    (ret.op \in {"search", "get_context_for_question"} /\ ~ret.raised) =>
        /\ Len(ret.list) <= ret.k
        /\ \A n \in 1..(Len(ret.list) - 1) : ret.list[n].score <= ret.list[n + 1].score
        /\ \A n \in DOMAIN ret.list :
            \E m \in DOMAIN vectorstore.docs :
                IsResultOf(ret.list[n], vectorstore.docs[m], ret.query)
        /\ (ret.op = "get_context_for_question" /\ Len(ret.list) > 0) =>
                ret.str = JoinLines([n \in DOMAIN ret.list |-> SourceBlock(n, ret.list[n])])

\* k results out of a larger index, the second strictly farther than the first
C11_Witness ==
    /\ ret.op = "search"
    /\ ~ret.raised
    /\ ret.k = MaxK
    /\ Len(ret.list) = ret.k
    /\ Len(vectorstore.docs) > ret.k
    /\ ret.list[1].score < ret.list[ret.k].score

LoadsFine(e) == Lower(e.name.ext) \in {".pdf", ".txt", ".docx"} /\ ~e.load.raises

\* the page units of the files from position n of the listing on that load
RECURSIVE UnitsFrom(_)
UnitsFrom(n) ==
    IF n > Len(listing) THEN <<>>
    ELSE (IF LoadsFine(listing[n])
          THEN LoaderLoad(listing[n], PathJoin(documents_folder, listing[n].name))
          ELSE <<>>) \o UnitsFrom(n + 1)

RECURSIVE PiecesFrom(_)
PiecesFrom(d) ==
    IF d > Len(all_documents) THEN 0 ELSE all_documents[d].pieces + PiecesFrom(d + 1)

C13_Isolation ==
    InCall =>
        /\ all_documents = UnitsFrom(1)
        /\ file_count = Cardinality({n \in DOMAIN listing : LoadsFine(listing[n])})
        /\ file_count > 0 => Len(chunks) = PiecesFrom(1)

C13_LoaderIsolatesFailures ==
    /\ []C13_Isolation
    /\ [][pc = "init" => pc' \in {"try", "done"}]_vars

\* a file whose loader raised is listed before a file that loaded
C13_Witness ==
    /\ InCall
    /\ \E m, n \in DOMAIN listing :
        /\ m < n
        /\ Supported(listing[m].name) /\ listing[m].load.raises
        /\ LoadsFine(listing[n]) /\ Len(listing[n].load.pages) > 0
    /\ Len(all_documents) > 0
    /\ Len(chunks) > 0

(***************************************************************************)
(* C14.  An empty corpus is not an error: when the folder holds no         *)
(* supported file, only files that fail to load, or files that give no     *)
(* chunk (a folder that did not exist is created at lines 14-16 and is     *)
(* listed empty), construction returns without raising and without any     *)
(* embedding call, the index stays unset, and from then on every search    *)
(* returns the empty list.                                                 *)
(***************************************************************************)
\* load_documents found nothing to index
EmptyCorpus ==
    /\ InCall
    /\ \/ \A n \in DOMAIN listing : ~LoadsFine(listing[n])
       \/ Len(chunks) = 0

\* no index, no embedding call, and the retriever answers with nothing
StaysEmpty ==
    /\ pc \in {"done", "idle"}
    /\ NoIndex
    /\ log = <<>>
    /\ ret.embed_calls = 0
    /\ ~ret.raised
    /\ ret.list = <<>>
    /\ ret.op = "get_context_for_question" => ret.str = NoDocumentsLoaded

C14_EmptyCorpusIsNotAnError == [](EmptyCorpus => []StaysEmpty)

\* files were loaded but gave no chunk; load_documents has returned
C14_Witness ==
    /\ pc = "done"
    /\ file_count > 0
    /\ Len(listing) = MaxFiles
    /\ Len(chunks) = 0
    /\ NoIndex

(***************************************************************************)
(* C15.  Whatever fails while /chat handles a POST (the body cannot be     *)
(* read, the query embedding of the RAG search fails, chat_model is not    *)
(* defined, the generation call fails) is caught by the handler: the       *)
(* caller gets the fixed "temporarily unavailable" reply with status 500,  *)
(* no exception leaves the handler, and generation is called at most once. *)
(***************************************************************************)
C15_ChatFailuresAnsweredUnavailable ==
    (ret.op = "chat_with_ai" /\ ret.method = "POST") =>
        /\ ~ret.raised
        /\ ret.gen_calls <= 1
        /\ ret.exc # "none" => /\ ret.status = HTTP_ERROR
                               /\ ret.reply = Unavailable
        /\ ret.exc = "none" => /\ ret.status = HTTP_OK
                               /\ ret.gen_calls = 1
        /\ ~chat_model => ret.exc # "none" /\ ret.gen_calls = 0

\* the RAG search returned its results and the generation call then failed
C15_Witness ==
    /\ ret.op = "chat_with_ai" /\ ret.method = "POST"
    /\ ret.exc = "generate_content"
    /\ ret.gen_calls = 1
    /\ Len(ret.list) = chat_k
    /\ ret.status = HTTP_ERROR

(***************************************************************************)
(* C16.  Whole-batch prefix invariant: at every point of a build (a failed *)
(* embedding call adding nothing to the store) the index holds exactly the *)
(* chunks of the first j batches, in input order, for some j from 0 to the *)
(* number of batches: never part of a batch, never a batch out of order;   *)
(* and the index is unset exactly when j = 0.                              *)
(***************************************************************************)
C16_WholeBatchPrefix ==
    (InCall /\ file_count > 0) =>
        \E j \in 0..NumBatches :
            /\ vectorstore.docs = FirstBatches(j)
            /\ Len(vectorstore.docs) = Min(j * batch_size, Len(chunks))
            /\ NoIndex <=> j = 0

\* the first attempt of batch 3 has failed: the index holds batches 1 and 2
C16_Witness ==
    /\ pc = "except"
    /\ BatchNo(i) = 3
    /\ Len(chunks) > 2 * batch_size
    /\ ~NoIndex
    /\ vectorstore.docs = SubSeq(chunks, 1, 2 * batch_size)

(***************************************************************************)
(* C17.  (The claim as stated.)  A repeated call of load_documents on the  *)
(* same engine rebuilds the index from scratch: when a call has returned   *)
(* normally, the index holds only chunks of the files that call loaded and *)
(* none of an earlier call; it is unset when that call loaded no file.     *)
(***************************************************************************)
C17_ReloadRebuildsFromScratch ==
    pc = "done" =>
        /\ \A n \in DOMAIN vectorstore.docs : vectorstore.docs[n].gen = loads
        /\ file_count = 0 => NoIndex

\* what the code does give: a call that loaded a file leaves only its own chunks
C17_RebuiltWhenFilesLoaded ==
    (pc = "done" /\ file_count > 0) =>
        /\ vectorstore.docs = chunks
        /\ \A n \in DOMAIN vectorstore.docs : vectorstore.docs[n].gen = loads
====
